---- MODULE Spec2Model ----
(***************************************************************************)
(* Chess-Rust: the square state store (board.rs), the king move generator  *)
(* (king.rs) and the selection / move handlers (piece.rs), as a state      *)
(* machine.  One action is one frame of the Update stage in which a        *)
(* PickingEvent::Selection is handled.                                     *)
(*                                                                         *)
(* piece.rs names the highlighted tile state Tile::WithCircle, board.rs    *)
(* and king.rs name it Tile::HighLighted: the model has one value,         *)
(* "HighLighted".  The `movements` module that piece.rs dispatches to for  *)
(* Rock, Knight, Bishop, Queen and Pawn is not among the source files; its *)
(* generators are written from the specification (section 4.2) on top of   *)
(* the tile test of king.rs.                                               *)
(***************************************************************************)
EXTENDS Integers, Sequences, FiniteSets, TLC

VARIABLES
    pc,          \* "Startup": tilemap built, setup_pieces not run; then "Running" / "Generated"
    tile_type,   \* TileState.tile_type of the tile at each TilePos
    piece_ent,   \* TileState.piece_ent of the tile at each TilePos (None = 0)
    pieces,      \* the piece entities in spawn order: kind, team, tile of the Transform
    circles,     \* number of HighLight marker entities whose Transform is on each tile
    selected,    \* the piece entity that holds the picking Selection (None = 0)
    nmoves,      \* number of moves made so far
    last,        \* the handler that ran last, and what it did
    before,      \* tile_type and pieces as they were when the last click on a marker or on
                 \* nothing was handled, or else when the current selection began
    at_select    \* tile_type as it was when the current selection began (a click on a
                 \* piece while nothing was selected)

vars == <<pc, tile_type, piece_ent, pieces, circles, selected, nmoves, last, before, at_select>>

----------------------------------------------------------------------------
(* Bounds of the model *)

\* moves explored from the starting board when any piece may be picked
MaxMoves == 1
\* moves explored when only the kings and the e-file white pawn are picked
MaxWalk == 7
\* pawns placed beside the piece under test on a test board
MaxBlockers == 1

----------------------------------------------------------------------------
(* Board grid *)

MapSize == 8
Coords == 0..(MapSize - 1)
Pos == Coords \X Coords
None == 0
NoPos == <<-1, -1>>

Teams == {"White", "Black"}
Kinds == {"Pawn", "Rock", "Knight", "Bishop", "Queen", "King"}

is_on_board(p) == p[1] \in Coords /\ p[2] \in Coords

\* a world: the part of the state the systems read and write
World == [tile_type |-> tile_type, piece_ent |-> piece_ent, pieces |-> pieces, circles |-> circles]

\* tilemap_builder: 64 tiles, each Tile::Empty with no piece
EmptyWorld ==
    [tile_type |-> [p \in Pos |-> "Empty"],
     piece_ent |-> [p \in Pos |-> None],
     pieces    |-> << >>,
     circles   |-> [p \in Pos |-> 0]]

----------------------------------------------------------------------------
(* Spawning *)

\* spawn_piece that forgets to write the tile state
spawn_piece_NoTileUpdate(w, kind, team, pos) ==
    IF is_on_board(pos)
    THEN [w EXCEPT !.pieces = Append(@, [kind |-> kind, team |-> team, pos |-> pos])]
    ELSE w

\* spawn_piece: the tile becomes NotEmpty and records the new entity
spawn_piece(w, kind, team, pos) ==
    IF is_on_board(pos)
    THEN [w EXCEPT !.tile_type[pos] = "NotEmpty",
                   !.piece_ent[pos] = Len(w.pieces) + 1,
                   !.pieces = Append(@, [kind |-> kind, team |-> team, pos |-> pos])]
    ELSE w

RECURSIVE SpawnAll(_, _)
SpawnAll(w, todo) ==
    IF todo = << >> THEN w
    ELSE SpawnAll(spawn_piece(w, Head(todo)[1], Head(todo)[2], Head(todo)[3]), Tail(todo))

\* the calls of setup_pieces, in the order of the source
SetupOrder ==
    << <<"Rock", "Black", <<0, 7>>>>,   <<"Rock", "Black", <<7, 7>>>>,
       <<"Knight", "Black", <<1, 7>>>>, <<"Knight", "Black", <<6, 7>>>>,
       <<"Bishop", "Black", <<2, 7>>>>, <<"Bishop", "Black", <<5, 7>>>>,
       <<"Queen", "Black", <<3, 7>>>>,  <<"King", "Black", <<4, 7>>>> >>
    \o [i \in 1..8 |-> <<"Pawn", "Black", <<i - 1, 6>>>>]
    \o
    << <<"Rock", "White", <<0, 0>>>>,   <<"Rock", "White", <<7, 0>>>>,
       <<"Knight", "White", <<1, 0>>>>, <<"Knight", "White", <<6, 0>>>>,
       <<"Bishop", "White", <<2, 0>>>>, <<"Bishop", "White", <<5, 0>>>>,
       <<"Queen", "White", <<3, 0>>>>,  <<"King", "White", <<4, 0>>>> >>
    \o [i \in 1..8 |-> <<"Pawn", "White", <<i - 1, 1>>>>]

setup_pieces(w) == SpawnAll(w, SetupOrder)

----------------------------------------------------------------------------
(* Highlighting *)

\* tile_s.tile_type = Tile::HighLighted; highlight_tile(...) spawns one marker
highlight_tile(w, pos) ==
    [w EXCEPT !.tile_type[pos] = "HighLighted", !.circles[pos] = @ + 1]

\* the tile test without the comparison of teams
offered_IgnoreTeam(w, team, pos) ==
    \/ w.tile_type[pos] = "Empty"
    \/ w.piece_ent[pos] # None

\* the tile test of King::movement: true when the tile is offered to `team`
offered(w, team, pos) ==
    \/ w.tile_type[pos] = "Empty"
    \/ /\ w.piece_ent[pos] # None
       /\ w.pieces[w.piece_ent[pos]].team # team

\* the tile is not Empty and holds a piece of the other team
holds_opponent(w, team, pos) ==
    /\ w.tile_type[pos] # "Empty"
    /\ w.piece_ent[pos] # None
    /\ w.pieces[w.piece_ent[pos]].team # team

RECURSIVE HighlightEach(_, _, _)
HighlightEach(w, team, ps) ==
    IF ps = << >> THEN w
    ELSE HighlightEach(IF offered(w, team, Head(ps)) THEN highlight_tile(w, Head(ps)) ELSE w,
                       team, Tail(ps))

\* SquareDirection, in the order Neighbors iterates: E, NE, N, NW, W, SW, S, SE
Direction ==
    [East |-> <<1, 0>>, NorthEast |-> <<1, 1>>, North |-> <<0, 1>>, NorthWest |-> <<-1, 1>>,
     West |-> <<-1, 0>>, SouthWest |-> <<-1, -1>>, South |-> <<0, -1>>, SouthEast |-> <<1, -1>>]

AllDirections ==
    <<"East", "NorthEast", "North", "NorthWest", "West", "SouthWest", "South", "SouthEast">>

Shift(p, d, k) == <<p[1] + k * d[1], p[2] + k * d[2]>>

OnBoard(ps) == SelectSeq(ps, is_on_board)

----------------------------------------------------------------------------
(* Move generators *)

\* Neighbors::get_square_neighboring_positions(&tile_pos, map_size, true).iter()
neighbors_positions(tile_pos) ==
    OnBoard([i \in 1..8 |-> Shift(tile_pos, Direction[AllDirections[i]], 1)])

\* King::movement
King_movement(w, team, tile_pos) ==
    HighlightEach(w, team, neighbors_positions(tile_pos))

\* movements::knight_movement (specification 4.2, Knight)
KnightOffsets ==
    << <<1, 2>>, <<2, 1>>, <<2, -1>>, <<1, -2>>, <<-1, -2>>, <<-2, -1>>, <<-2, 1>>, <<-1, 2>> >>

\* a knight generator that knows only four of the eight jumps
knight_movement_FourJumps(w, team, tile_pos) ==
    HighlightEach(w, team, OnBoard([i \in 1..4 |-> Shift(tile_pos, KnightOffsets[i], 1)]))

knight_movement(w, team, tile_pos) ==
    HighlightEach(w, team, OnBoard([i \in 1..8 |-> Shift(tile_pos, KnightOffsets[i], 1)]))

\* one direction of movements::sequencial_pieces (specification 4.2, Sliding)
RECURSIVE Walk(_, _, _, _)
Walk(w, team, p, d) ==
    LET n == Shift(p, d, 1) IN
    IF ~is_on_board(n) THEN w
    ELSE IF w.tile_type[n] = "Empty" THEN Walk(highlight_tile(w, n), team, n, d)
    ELSE IF holds_opponent(w, team, n) THEN highlight_tile(w, n)
    ELSE w

RECURSIVE sequencial_pieces(_, _, _, _)
sequencial_pieces(w, team, tile_pos, neighbor_directions) ==
    IF neighbor_directions = << >> THEN w
    ELSE sequencial_pieces(Walk(w, team, tile_pos, Direction[Head(neighbor_directions)]),
                           team, tile_pos, Tail(neighbor_directions))

\* movements::pawn_movement (specification 4.2, Pawn)
Forward(team) == IF team = "White" THEN 1 ELSE -1

\* a pawn generator that treats all three tiles ahead like a king treats a neighbour
pawn_movement_DiagonalOntoEmpty(w, team, tile_pos) ==
    HighlightEach(w, team,
        OnBoard(<< <<tile_pos[1], tile_pos[2] + Forward(team)>>,
                   <<tile_pos[1] - 1, tile_pos[2] + Forward(team)>>,
                   <<tile_pos[1] + 1, tile_pos[2] + Forward(team)>> >>))

pawn_movement(w, team, tile_pos) ==
    LET f  == <<tile_pos[1], tile_pos[2] + Forward(team)>>
        dl == <<tile_pos[1] - 1, tile_pos[2] + Forward(team)>>
        dr == <<tile_pos[1] + 1, tile_pos[2] + Forward(team)>>
        w1 == IF is_on_board(f) /\ w.tile_type[f] = "Empty" THEN highlight_tile(w, f) ELSE w
        w2 == IF is_on_board(dl) /\ holds_opponent(w1, team, dl) THEN highlight_tile(w1, dl) ELSE w1
    IN  IF is_on_board(dr) /\ holds_opponent(w2, team, dr) THEN highlight_tile(w2, dr) ELSE w2

\* the Rock's list with East left out
RockDirections_NoEast == <<"North", "South", "West">>

RockDirections == <<"North", "South", "West", "East">>
BishopDirections == <<"NorthWest", "NorthEast", "SouthWest", "SouthEast">>
\* the Queen's list with SouthEast left out
QueenDirections_NoSouthEast ==
    <<"North", "South", "West", "East", "NorthWest", "NorthEast", "SouthWest">>

QueenDirections ==
    <<"North", "South", "West", "East", "NorthWest", "NorthEast", "SouthWest", "SouthEast">>

\* get_piece_movements, for PickingEvent::Selection(JustSelected(s)), s a piece
get_piece_movements(w, s) ==
    LET kind     == w.pieces[s].kind
        team     == w.pieces[s].team
        tile_pos == w.pieces[s].pos
    IN  CASE kind = "Rock"   -> sequencial_pieces(w, team, tile_pos, RockDirections)
          [] kind = "Knight" -> knight_movement(w, team, tile_pos)
          [] kind = "Bishop" -> sequencial_pieces(w, team, tile_pos, BishopDirections)
          [] kind = "Queen"  -> sequencial_pieces(w, team, tile_pos, QueenDirections)
          [] kind = "King"   -> King_movement(w, team, tile_pos)
          [] kind = "Pawn"   -> pawn_movement(w, team, tile_pos)

----------------------------------------------------------------------------
(* Moving and clearing *)

\* reset_neighbors without its guard: every marked tile is set to Empty
reset_neighbors_Unguarded(w, pos) ==
    [w EXCEPT !.tile_type[pos] = "Empty", !.circles[pos] = @ - 1]

\* reset_neighbors that despawns the marker and leaves the tile as it is
reset_neighbors_MarkerOnly(w, pos) ==
    [w EXCEPT !.circles[pos] = @ - 1]

\* reset_neighbors, for one marker entity whose Transform is on tile pos
reset_neighbors(w, pos) ==
    [w EXCEPT !.tile_type[pos] = IF @ = "HighLighted" THEN "Empty" ELSE @,
              !.circles[pos] = @ - 1]

\* the loop over highlight_pos: `todo` counts the markers still to visit per tile
RECURSIVE ResetEach(_, _)
ResetEach(w, todo) ==
    IF \A p \in Pos : todo[p] = 0 THEN w
    ELSE LET p == CHOOSE q \in Pos : todo[q] > 0
         IN  ResetEach(reset_neighbors(w, p), [todo EXCEPT ![p] = @ - 1])

\* the entity e is spawned and not despawned: the queries of King::movement find it
alive(w, e) == e \in 1..Len(w.pieces) /\ is_on_board(w.pieces[e].pos)

\* the body of `if let Tile::WithCircle` that also despawns the pieces of the other
\* team found on the destination
relocate_DespawnsCaptured(w, s, tile_pos) ==
    LET old_tile == w.pieces[s].pos
        gone == {e \in 1..Len(w.pieces) :
                    w.pieces[e].pos = tile_pos /\ w.pieces[e].team # w.pieces[s].team}
        w1 == [w EXCEPT !.tile_type[tile_pos] = "NotEmpty", !.tile_type[old_tile] = "Empty"]
    IN  [w1 EXCEPT !.pieces = [e \in 1..Len(w.pieces) |->
                                  IF e = s THEN [w.pieces[e] EXCEPT !.pos = tile_pos]
                                  ELSE IF e \in gone THEN [w.pieces[e] EXCEPT !.pos = NoPos]
                                  ELSE w.pieces[e]]]

\* the body of `if let Tile::WithCircle` without the write to the old tile
relocate_KeepOrigin(w, s, tile_pos) ==
    [w EXCEPT !.tile_type[tile_pos] = "NotEmpty", !.pieces[s].pos = tile_pos]

\* the body of `if let Tile::WithCircle = tile_s.tile_type`
relocate(w, s, tile_pos) ==
    LET old_tile == w.pieces[s].pos
        w1 == [w EXCEPT !.tile_type[tile_pos] = "NotEmpty"]
        w2 == [w1 EXCEPT !.tile_type[old_tile] = "Empty"]
    IN  [w2 EXCEPT !.pieces[s].pos = tile_pos]

\* the loop over selected_pos with the write to the old tile made before the marker
\* is looked at
try_move_EmptiesOrigin(w, s, clicked) ==
    IF clicked # NoPos /\ w.tile_type[clicked] = "HighLighted"
    THEN relocate(w, s, clicked)
    ELSE [w EXCEPT !.tile_type[w.pieces[s].pos] = "Empty"]

\* the loop over selected_pos: clicked is the tile of the marker that was clicked, or NoPos
try_move(w, s, clicked) ==
    IF clicked # NoPos /\ w.tile_type[clicked] = "HighLighted"
    THEN relocate(w, s, clicked)
    ELSE w

\* move_piece, for PickingEvent::Selection(JustDeselected(s)); `markers` are the
\* HighLight entities that exist when the system runs
move_piece(w, s, clicked, markers) == ResetEach(try_move(w, s, clicked), markers)

----------------------------------------------------------------------------
(* State machine *)

NoEvent == [op |-> "tilemap_builder", piece |-> None, from |-> NoPos, to |-> NoPos]

Snapshot == [tile_type |-> tile_type, pieces |-> pieces]

Init ==
    /\ pc = "Startup"
    /\ tile_type = EmptyWorld.tile_type
    /\ piece_ent = EmptyWorld.piece_ent
    /\ pieces = EmptyWorld.pieces
    /\ circles = EmptyWorld.circles
    /\ selected = None
    /\ nmoves = 0
    /\ last = NoEvent
    /\ before = [tile_type |-> EmptyWorld.tile_type, pieces |-> << >>]
    /\ at_select = EmptyWorld.tile_type

Become(w) ==
    /\ tile_type' = w.tile_type
    /\ piece_ent' = w.piece_ent
    /\ pieces' = w.pieces
    /\ circles' = w.circles

\* PostStartup stage: setup_pieces
SetupPieces ==
    /\ pc = "Startup"
    /\ pieces = << >>
    /\ Become(setup_pieces(World))
    /\ pc' = "Running"
    /\ last' = [NoEvent EXCEPT !.op = "setup_pieces"]
    /\ before' = Snapshot
    /\ UNCHANGED <<selected, nmoves, at_select>>

\* a frame with JustSelected(s): the player clicks piece s, nothing was selected
Select(s) ==
    /\ selected = None
    /\ s \in 1..Len(pieces)
    /\ Become(get_piece_movements(World, s))
    /\ selected' = s
    /\ last' = [op |-> "select", piece |-> s, from |-> pieces[s].pos, to |-> pieces[s].pos]
    /\ before' = Snapshot
    /\ at_select' = tile_type
    /\ UNCHANGED <<pc, nmoves>>

\* a frame with JustDeselected(selected) and JustSelected(marker): the player clicks
\* the marker on tile d
ChooseDestination(d, bound) ==
    /\ selected # None
    /\ circles[d] > 0
    /\ nmoves < bound
    /\ Become(move_piece(World, selected, d, circles))
    /\ selected' = None
    /\ nmoves' = IF pieces'[selected].pos # pieces[selected].pos THEN nmoves + 1 ELSE nmoves
    /\ last' = [op    |-> IF pieces'[selected].pos # pieces[selected].pos THEN "commit" ELSE "ignored",
                piece |-> selected, from |-> pieces[selected].pos, to |-> d]
    /\ before' = Snapshot
    /\ UNCHANGED <<pc, at_select>>

\* a frame with JustDeselected(selected) alone: the player clicks where nothing is pickable
Cancel ==
    /\ selected # None
    /\ Become(move_piece(World, selected, NoPos, circles))
    /\ selected' = None
    /\ last' = [op |-> "cancel", piece |-> selected, from |-> pieces[selected].pos, to |-> NoPos]
    /\ before' = Snapshot
    /\ UNCHANGED <<pc, nmoves, at_select>>

\* a frame with JustDeselected(selected) and JustSelected(s): the player clicks another
\* piece.  The two systems are not ordered against each other; spawns and despawns
\* are commands, applied after both have run.
Reselect(s, move_first) ==
    /\ selected # None
    /\ s \in 1..Len(pieces)
    /\ s # selected
    /\ circles[pieces[s].pos] = 0
    /\ IF move_first
       THEN Become(get_piece_movements(move_piece(World, selected, NoPos, circles), s))
       ELSE Become(move_piece(get_piece_movements(World, s), selected, NoPos, circles))
    /\ selected' = s
    /\ last' = [op |-> "reselect", piece |-> s, from |-> pieces[s].pos, to |-> pieces[s].pos]
    /\ UNCHANGED <<pc, nmoves, before, at_select>>

\* a frame with JustDeselected(s) while no piece holds the Selection: the handler
\* runs with the markers that exist (clicked is the tile of one of them, or NoPos)
IdleDeselect(s) ==
    /\ pc = "Running"
    /\ selected = None
    /\ s \in 1..Len(pieces)
    /\ \E clicked \in {NoPos} \cup {q \in Pos : circles[q] > 0} :
          Become(move_piece(World, s, clicked, circles))
    /\ last' = [op |-> "idle_event", piece |-> s, from |-> pieces[s].pos, to |-> NoPos]
    /\ before' = Snapshot
    /\ UNCHANGED <<pc, selected, nmoves, at_select>>

Next ==
    \/ SetupPieces
    \/ \E s \in 1..Len(pieces) : Select(s)
    \/ \E d \in Pos : ChooseDestination(d, MaxMoves)
    \/ Cancel
    \/ \E s \in 1..Len(pieces), move_first \in BOOLEAN : Reselect(s, move_first)
    \/ \E s \in 1..Len(pieces) : IdleDeselect(s)

Spec == Init /\ [][Next]_vars

\* the same game, the player picking only the kings and the White pawn of column 4
WalkPieces ==
    {s \in 1..Len(pieces) :
        \/ pieces[s].kind = "King"
        \/ pieces[s].kind = "Pawn" /\ pieces[s].team = "White" /\ pieces[s].pos[1] = 4}

NextWalk ==
    \/ SetupPieces
    \/ \E s \in WalkPieces : Select(s)
    \/ \E d \in Pos : ChooseDestination(d, MaxWalk)
    \/ Cancel
    \/ \E s \in WalkPieces, move_first \in BOOLEAN : Reselect(s, move_first)
    \/ \E s \in WalkPieces : IdleDeselect(s)

SpecWalk == Init /\ [][NextWalk]_vars

\* a test board: one piece of any kind, then up to MaxBlockers pawns, each on an
\* Empty tile, spawned by spawn_piece; then the generator of any piece is run
TestSpawn(kind, team, pos) ==
    /\ pc = "Startup"
    /\ selected = None
    /\ Len(pieces) < 1 + MaxBlockers
    /\ pieces # << >> => kind = "Pawn"
    /\ tile_type[pos] = "Empty"
    /\ Become(spawn_piece(World, kind, team, pos))
    /\ last' = [op |-> "spawn_piece", piece |-> Len(pieces) + 1, from |-> pos, to |-> pos]
    /\ before' = Snapshot
    /\ UNCHANGED <<pc, selected, nmoves, at_select>>

NextGen ==
    \/ SetupPieces
    \/ \E kind \in Kinds, team \in Teams, pos \in Pos : TestSpawn(kind, team, pos)
    \/ \E s \in 1..Len(pieces) : Select(s)

SpecGen == Init /\ [][NextGen]_vars

----------------------------------------------------------------------------
(* What the claims speak of *)

Highlighted == {p \in Pos : tile_type[p] = "HighLighted"}

\* the piece entities whose Transform is on tile p, in the piece table ps
PiecesOn(ps, p) == {e \in 1..Len(ps) : ps[e].pos = p}

NoHighlightLeft == Highlighted = {} /\ \A p \in Pos : circles[p] = 0

BackRank == <<"Rock", "Knight", "Bishop", "Queen", "King", "Bishop", "Knight", "Rock">>

\* tile p holds exactly one piece, of this kind and team, and the store records it
HoldsOne(p, kind, team) ==
    /\ tile_type[p] = "NotEmpty"
    /\ \E e \in 1..Len(pieces) :
          /\ PiecesOn(pieces, p) = {e}
          /\ pieces[e].kind = kind
          /\ pieces[e].team = team
          /\ piece_ent[p] = e

----------------------------------------------------------------------------
(* C1 *)

\* C1 (as claimed): a click that chooses no highlighted destination (a click on nothing,
\* or on a marker whose tile is not HighLighted) leaves the state of every tile exactly
\* as it was before move_piece ran.
C1_BoardUnchangedOnIllegalDestination ==
    last.op \in {"cancel", "ignored"} => tile_type = before.tile_type

----------------------------------------------------------------------------
(* C2 *)

----------------------------------------------------------------------------
(* C3 *)

\* the pieces of the other team that stood on the destination when the move began
Victims ==
    {v \in PiecesOn(before.pieces, last.to) :
        before.pieces[v].team # before.pieces[last.piece].team}

\* C3 (as claimed, for a move of a King, whose generator is in the source): when a move
\* lands on a tile that held a piece of the other team, that piece is on no tile of the
\* board afterwards.
C3_CapturedPieceRemoved ==
    (last.op = "commit" /\ pieces[last.piece].kind = "King") =>
        \A v \in Victims : \A p \in Pos : v \notin PiecesOn(pieces, p)

----------------------------------------------------------------------------
(* C4 *)

\* C4: right after a move no tile is HighLighted, no marker entity remains, and the
\* destination tile is still NotEmpty.
C4_CommitClearsHighlights ==
    last.op = "commit" => NoHighlightLeft /\ tile_type[last.to] = "NotEmpty"

\* a move made while more tiles than the destination were highlighted
C4_Witness ==
    /\ last.op = "commit"
    /\ \E p \in Pos : p # last.to /\ before.tile_type[p] = "HighLighted"

----------------------------------------------------------------------------
(* C5 *)

\* C5 (as claimed, for the selection of a King, whose generator is in the source):
\* after a piece was selected and then deselected without a destination, nothing is
\* highlighted and every tile has the state it had before the selection; a NotEmpty
\* tile that was offered as a capture is NotEmpty again.
C5_CancelRestoresOccupancy ==
    [][(last.op = "select" /\ pieces[last.piece].kind = "King" /\ last'.op = "cancel") =>
          (NoHighlightLeft' /\ tile_type' = before.tile_type)]_vars

----------------------------------------------------------------------------
(* Move generation, stated on the store as it was when the generator started *)

Abs(n) == IF n < 0 THEN -n ELSE n

\* what the store records for tile p: Empty, or a piece of a team
SquareEmpty(p) == before.tile_type[p] = "Empty"
SquareOf(p, team) ==
    /\ before.tile_type[p] # "Empty"
    /\ piece_ent[p] # None
    /\ pieces[piece_ent[p]].team = team
SquareOpposing(p, team) == \E t \in Teams \ {team} : SquareOf(p, t)
SquareOwn(p, team) == SquareOf(p, team)

\* where the pieces stand
StandsOpposing(p, team) == \E e \in PiecesOn(pieces, p) : pieces[e].team # team
StandsOwn(p, team) == \E e \in PiecesOn(pieces, p) : pieces[e].team = team

\* the store records exactly the pieces that stand on the tiles
StoreFaithful ==
    \A p \in Pos :
        /\ tile_type[p] = "Empty" <=> PiecesOn(pieces, p) = {}
        /\ tile_type[p] = "Empty" <=> piece_ent[p] = None
        /\ tile_type[p] = "NotEmpty" => PiecesOn(pieces, p) = {piece_ent[p]}

\* on a test board and on the starting board, before anything is selected, the store
\* is faithful: there the claims below speak of the pieces themselves
TestBoardsFaithful == (selected = None /\ nmoves = 0 /\ last.op # "cancel") => StoreFaithful

\* a generator has just run for a piece of this kind
Generated(kind) == last.op = "select" /\ pieces[last.piece].kind = kind

Origin == pieces[last.piece].pos
Mover == pieces[last.piece].team

\* exactly one marker on each highlighted tile, none elsewhere
OneMarkerEach == \A p \in Pos : circles[p] = IF p \in Highlighted THEN 1 ELSE 0

----------------------------------------------------------------------------
(* C6 *)

UnitNeighbours(o) ==
    {p \in Pos : p # o /\ Abs(p[1] - o[1]) <= 1 /\ Abs(p[2] - o[2]) <= 1}

\* C6: after the generator of a King has run, the highlighted tiles are exactly the
\* on-board unit neighbours of its tile that the store records as Empty or as held
\* by a piece of the other team; no tile recorded as held by the King's team is
\* highlighted.
C6_KingDestinations ==
    Generated("King") =>
        /\ Highlighted = {p \in UnitNeighbours(Origin) :
                             SquareEmpty(p) \/ SquareOpposing(p, Mover)}
        /\ \A p \in Highlighted : ~SquareOwn(p, Mover)
        /\ OneMarkerEach

\* a King on the edge of the board with a piece of the other team beside it
C6_Witness ==
    /\ Generated("King")
    /\ Cardinality(UnitNeighbours(Origin)) < 8
    /\ \E p \in Highlighted : StandsOpposing(p, Mover)

\* a King with a piece of its own team beside it
C6_WitnessOwn ==
    /\ Generated("King")
    /\ \E p \in UnitNeighbours(Origin) : StandsOwn(p, Mover)
    /\ Highlighted # {}

----------------------------------------------------------------------------
(* C8 *)

Units == {-1, 0, 1} \X {-1, 0, 1}
Orthogonal == {d \in Units : Abs(d[1]) + Abs(d[2]) = 1}
Diagonal == {d \in Units : Abs(d[1]) = 1 /\ Abs(d[2]) = 1}
Rays(kind) ==
    CASE kind = "Rock" -> Orthogonal
      [] kind = "Bishop" -> Diagonal
      [] kind = "Queen" -> Orthogonal \cup Diagonal

Sliding == {"Rock", "Bishop", "Queen"}

\* the distances at which direction d from o meets a tile the store records as not Empty
Blockers(o, d) ==
    {k \in 1..(MapSize - 1) : is_on_board(Shift(o, d, k)) /\ ~SquareEmpty(Shift(o, d, k))}

Nearest(ks) == CHOOSE k \in ks : \A j \in ks : k <= j

C8_WitnessOwn ==
    \E kind \in Sliding :
        /\ Generated(kind)
        /\ \E d \in Rays(kind) :
              /\ Blockers(Origin, d) # {}
              /\ Nearest(Blockers(Origin, d)) >= 2
              /\ StandsOwn(Shift(Origin, d, Nearest(Blockers(Origin, d))), Mover)

----------------------------------------------------------------------------
(* C9 *)

KnightJumps(o) ==
    {p \in Pos : {Abs(p[1] - o[1]), Abs(p[2] - o[2])} = {1, 2}}

C9_WitnessCapture ==
    /\ Generated("Knight")
    /\ \E p \in Highlighted : StandsOpposing(p, Mover)

----------------------------------------------------------------------------
(* C10 *)

Ahead(team) == IF team = "White" THEN 1 ELSE -1

\* C10: after the generator of a Pawn has run, the tile one step ahead (row + 1 for
\* White, row - 1 for Black) is highlighted exactly when the store records it as
\* Empty, each of the two tiles diagonally ahead exactly when the store records it as
\* held by the other team, and no other tile is highlighted.
C10_PawnDestinations ==
    Generated("Pawn") =>
        LET y == Origin[2] + Ahead(Mover)
            f == <<Origin[1], y>>
            diag == {<<Origin[1] - 1, y>>, <<Origin[1] + 1, y>>} \cap Pos
        IN  /\ Highlighted = {p \in {f} \cap Pos : SquareEmpty(p)}
                               \cup {p \in diag : SquareOpposing(p, Mover)}
            /\ OneMarkerEach

\* a Pawn that is offered the tile of a piece of the other team diagonally ahead
C10_Witness ==
    /\ Generated("Pawn")
    /\ \E p \in Highlighted : p[1] # Origin[1] /\ StandsOpposing(p, Mover)

\* a Pawn whose tile ahead holds a piece and is not offered
C10_WitnessBlocked ==
    /\ Generated("Pawn")
    /\ is_on_board(<<Origin[1], Origin[2] + Ahead(Mover)>>)
    /\ PiecesOn(pieces, <<Origin[1], Origin[2] + Ahead(Mover)>>) # {}
    /\ Highlighted = {}

----------------------------------------------------------------------------
(* C7 *)

\* C7: when setup_pieces has run, row 0 is the White back rank Rock, Knight, Bishop,
\* Queen, King, Bishop, Knight, Rock, row 1 is eight White pawns, row 6 eight Black
\* pawns, row 7 the Black back rank in the same column order, rows 2..5 are Empty and
\* hold no piece, and nothing is highlighted.
C7_StartingLayout ==
    last.op = "setup_pieces" =>
        /\ Len(pieces) = 4 * MapSize
        /\ \A x \in Coords :
              /\ HoldsOne(<<x, 0>>, BackRank[x + 1], "White")
              /\ HoldsOne(<<x, 1>>, "Pawn", "White")
              /\ HoldsOne(<<x, 6>>, "Pawn", "Black")
              /\ HoldsOne(<<x, 7>>, BackRank[x + 1], "Black")
              /\ \A y \in 2..5 :
                    /\ tile_type[<<x, y>>] = "Empty"
                    /\ piece_ent[<<x, y>>] = None
                    /\ PiecesOn(pieces, <<x, y>>) = {}
        /\ NoHighlightLeft

C7_Witness == last.op = "setup_pieces" /\ pc = "Running" /\ pieces # << >>

----------------------------------------------------------------------------
(* C11 *)

\* the tiles a King of `team` on tile o is owed on the store `tt`
KingOwed(tt, o, team) ==
    {p \in UnitNeighbours(o) :
        \/ tt[p] = "Empty"
        \/ /\ piece_ent[p] # None
           /\ pieces[piece_ent[p]].team # team}

\* C11 (as claimed, for a King that is picked while another piece is selected): after
\* the frame the highlighted tiles are exactly the destinations of the King on the
\* store as it was before anything was selected, with one marker on each: nothing is
\* left of the earlier selection and no destination is missing.
C11_ReselectShowsNewSetOnly ==
    (last.op = "reselect" /\ pieces[last.piece].kind = "King") =>
        /\ Highlighted = KingOwed(at_select, Origin, Mover)
        /\ OneMarkerEach

----------------------------------------------------------------------------
(* C12 *)

----------------------------------------------------------------------------
(* C13 *)

\* the loop over highlight_pos run on the current state
ClearedOnce == ResetEach(World, circles)

\* C13: in every state, running the loop over the markers a second time changes
\* nothing of what the first run left, and the first run leaves no HighLighted tile
\* and no marker; a second run in the same frame, which still visits the markers
\* the first run queued for despawn, changes no tile either.
C13_ClearAllIdempotent ==
    LET once == ClearedOnce
    IN  /\ ResetEach(once, once.circles) = once
        /\ ResetEach(once, circles).tile_type = once.tile_type
        /\ \A p \in Pos : once.tile_type[p] # "HighLighted" /\ once.circles[p] = 0

\* a selection with several highlighted tiles, one of them the tile of a piece
C13_Witness ==
    /\ selected # None
    /\ Cardinality(Highlighted) >= 2
    /\ \E p \in Highlighted : PiecesOn(pieces, p) # {}
    /\ ClearedOnce.tile_type # tile_type

----------------------------------------------------------------------------
(* C14 *)

\* the store as it was when the generator started, with no marker
WorldBefore ==
    [tile_type |-> before.tile_type, piece_ent |-> piece_ent, pieces |-> pieces,
     circles |-> [p \in Pos |-> 0]]

HighlightedIn(w) == {p \in Pos : w.tile_type[p] = "HighLighted"}

DirSet(ds) == {ds[i] : i \in 1..Len(ds)}

\* what a Rock and a Bishop of the mover's team are offered from the mover's tile
AsRock == HighlightedIn(sequencial_pieces(WorldBefore, Mover, Origin, RockDirections))
AsBishop == HighlightedIn(sequencial_pieces(WorldBefore, Mover, Origin, BishopDirections))

\* C14: the Queen's list of directions holds North, South, East, West, NorthEast,
\* NorthWest, SouthEast, SouthWest once each, the first four being the Rock's list
\* and the other four the Bishop's; after the generator of a Queen has run, the
\* highlighted tiles are those a Rock of her team on her tile is offered together
\* with those a Bishop of her team on her tile is offered.
C14_QueenIsRookPlusBishop ==
    /\ DirSet(RockDirections) = {"North", "South", "East", "West"}
    /\ DirSet(BishopDirections) = {"NorthEast", "NorthWest", "SouthEast", "SouthWest"}
    /\ DirSet(QueenDirections) = DirSet(RockDirections) \cup DirSet(BishopDirections)
    /\ Len(QueenDirections) = Cardinality(DirSet(QueenDirections))
    /\ Generated("Queen") =>
           /\ Highlighted = AsRock \cup AsBishop
           /\ OneMarkerEach

\* a Queen with destinations of both kinds and a piece in one of her directions
C14_Witness ==
    /\ Generated("Queen")
    /\ AsRock # {}
    /\ AsBishop # {}
    /\ \E d \in Rays("Queen") : Blockers(Origin, d) # {}
    /\ \E p \in Highlighted : StandsOpposing(p, Mover)

----------------------------------------------------------------------------
(* C15 *)

\* the reads King::movement makes for the King s: every neighbour position is on the
\* board, and a handle read from a tile that is not Empty names a live piece
KingReadsResolve(s) ==
    /\ is_on_board(pieces[s].pos)
    /\ \A i \in 1..Len(neighbors_positions(pieces[s].pos)) :
          LET p == neighbors_positions(pieces[s].pos)[i]
          IN  /\ is_on_board(p)
              /\ (tile_type[p] # "Empty" /\ piece_ent[p] # None) => alive(World, piece_ent[p])

\* C15: in every state, for each King, every position King::movement would read is
\* on the board and every piece handle it would read from a tile that is not Empty
\* names a piece that exists.
C15_KingGenerationNeverFails ==
    \A s \in 1..Len(pieces) : pieces[s].kind = "King" => KingReadsResolve(s)

\* the generator has run for a King on the edge of the board, beside a tile on which
\* a piece was captured and whose handle it read
C15_Witness ==
    /\ Generated("King")
    /\ Cardinality(UnitNeighbours(Origin)) < Cardinality(UnitNeighbours(<<1, 1>>))
    /\ \E p \in UnitNeighbours(Origin) :
          /\ Cardinality(PiecesOn(pieces, p)) > 1
          /\ before.tile_type[p] # "Empty"
          /\ piece_ent[p] # None

----------------------------------------------------------------------------
(* C16 *)

\* on the store tt and the piece table ps: no tile carries two pieces, the tile of
\* every piece is recorded NotEmpty, and as many tiles are recorded NotEmpty as there
\* are pieces
OnePiecePerSquare(tt, ps) ==
    /\ \A p \in Pos : Cardinality(PiecesOn(ps, p)) <= 1
    /\ \A e \in 1..Len(ps) : tt[ps[e].pos] = "NotEmpty"
    /\ Cardinality({p \in Pos : tt[p] = "NotEmpty"}) = Len(ps)

\* C16 (as claimed, for the selection of a King on a board where it holds): when the
\* selection has ended by a click on nothing or by a move, still no tile carries two
\* pieces, the tile of every piece is recorded NotEmpty, and as many tiles are
\* recorded NotEmpty as there are pieces.
C16_OnePiecePerOccupiedSquare ==
    [][(/\ last.op = "select"
        /\ pieces[last.piece].kind = "King"
        /\ OnePiecePerSquare(before.tile_type, pieces)
        /\ last'.op \in {"cancel", "commit"}) =>
          OnePiecePerSquare(tile_type', pieces')]_vars

----------------------------------------------------------------------------
(* C17 *)

\* C17 (as claimed, for a move of a King): after a move, every tile other than the
\* origin and the destination has the state it had before the King was selected, no
\* other piece has changed, and the King has changed tile.
C17_CommitChangesOriginAndDestinationOnly ==
    [][(last.op = "select" /\ pieces[last.piece].kind = "King" /\ last'.op = "commit") =>
          /\ \A p \in Pos \ {last'.from, last'.to} : tile_type'[p] = before.tile_type[p]
          /\ \A e \in 1..Len(pieces) : e # last'.piece => pieces'[e] = pieces[e]
          /\ pieces'[last'.piece].pos # pieces[last'.piece].pos]_vars

====
